---- MODULE Spec2Model ----
(***************************************************************************)
(* ServerThread of protorpc/webapp_test_util.py: a thread that owns a WSGI *)
(* server and handles one connection per permit granted through            *)
(* handle_request(), guarded by one threading.Condition.                   *)
(*                                                                         *)
(* Threads: the serving thread (Server) and the driver threads (Drivers).  *)
(* Every statement of the four @__lock methods is one step, so that the    *)
(* interleavings the lock allows (and forbids) are those of the model.     *)
(***************************************************************************)
EXTENDS Integers, Sequences, FiniteSets, TLC

\* ---- bounds of the model ------------------------------------------------
NumDrivers == 2
NumFairDrivers == 1
MaxCount == 2
MaxGranted == 3
MaxBacklog == 1
MaxScriptLen == 4

\* ---- threads --------------------------------------------------------------
Server == 0
Drivers == 1..NumDrivers
Threads == {Server} \cup Drivers
NoThread == -1
ScriptDriver == 1

VARIABLES
  pc,        \* position of every thread in the method it executes
  lock,      \* owner of self.__condition's lock, or NoThread
  waiters,   \* threads blocked in self.__condition.wait(), oldest first
  serving,   \* self.__serving
  started,   \* self.__started
  requests,  \* self.__requests
  server,    \* self.server: "wsgi" until run() clears it
  arg,       \* request_count of the handle_request call a driver is in
  granted,   \* history: sum of the request_count added so far
  handled,   \* history: completed calls of self.server.handle_request()
  conns,     \* connections pending on the listening socket
  script,    \* the program of the scripted driver (empty when unscripted)
  ip,        \* next operation of script
  rpc,       \* the send_rpc call made through ServerTransportWrapper
  svc        \* per URL path, the last call dispatched to its service

vars == <<pc, lock, waiters, serving, started, requests, server, arg,
          granted, handled, conns, script, ip, rpc, svc>>

flags == <<serving, started, requests, server>>
hist == <<granted, handled>>
scr == <<script, ip, rpc, svc>>

\* ---- the condition's lock and wait queue ---------------------------------
\* self.__condition.acquire(): blocks until the lock is free.
\* Faulty variant: an acquire that does not wait for the lock to be free.
AcquireLock_NoMutex(t) ==
  lock' = t

AcquireLock(t) ==
  /\ lock = NoThread
  /\ lock' = t

\* self.__condition.release()
ReleaseLock(t) ==
  lock' = NoThread

\* Position of a thread that a notify took out of the wait queue: it has
\* still to take the lock again before wait() returns.
WokenPc(p) ==
  IF p = "run_wait" THEN "run_woken" ELSE "wur_woken"

\* pc after thread t moves to position `to` and the threads of set W are
\* notified.
PcAfterNotify(t, to, W) ==
  [x \in Threads |->
     IF x = t THEN to
     ELSE IF x \in W THEN WokenPc(pc[x])
     ELSE pc[x]]

\* self.__condition.notify(): wakes the oldest waiter, if any.
\* Faulty variant: a notify that wakes nobody.
Notify_Lost(t, to) ==
  /\ pc' = [pc EXCEPT ![t] = to]
  /\ UNCHANGED waiters

Notify(t, to) ==
  IF waiters = <<>>
  THEN /\ pc' = [pc EXCEPT ![t] = to]
       /\ UNCHANGED waiters
  ELSE /\ pc' = PcAfterNotify(t, to, {Head(waiters)})
       /\ waiters' = Tail(waiters)

\* self.__condition.notifyAll(): wakes every waiter.
NotifyAll(t, to) ==
  /\ pc' = PcAfterNotify(t, to, {waiters[i] : i \in 1..Len(waiters)})
  /\ waiters' = <<>>

\* self.__condition.wait(): releases the lock and joins the wait queue.
Wait(t, to) ==
  /\ waiters' = Append(waiters, t)
  /\ lock' = NoThread
  /\ pc' = [pc EXCEPT ![t] = to]

\* ---- TestService and the default service mapping --------------------------
MaxStrLen == 3
Alphabet == {"x", "+"}

\* The strings of at most n characters over Alphabet.
RECURSIVE StringsUpTo(_)
StringsUpTo(n) ==
  IF n = 0 THEN {""}
  ELSE StringsUpTo(n - 1) \cup
         {c \o s : c \in Alphabet, s \in StringsUpTo(n - 1)}

\* OptionalMessage: one optional string field.  An unset field reads as
\* None, which is not a string; `set` tells it from the empty string.
Unset == [set |-> FALSE, string_value |-> ""]
OptionalMessage(s) == [set |-> TRUE, string_value |-> s]
Requests == {Unset} \cup {OptionalMessage(s) : s \in StringsUpTo(MaxStrLen)}

\* TestService.__init__(self, message='uninitialized')
TestService(args) ==
  [message |-> IF Len(args) = 0 THEN "uninitialized" ELSE args[1]]

\* Faulty variant: a method that prepends to any string, empty or not.
optional_message_Always(self, request) ==
  IF request.set
  THEN [request EXCEPT !.string_value = "+" \o @]
  ELSE request

\* if request.string_value: request.string_value = '+%s' % ...; return request
optional_message(self, request) ==
  IF request.set /\ request.string_value # ""
  THEN [request EXCEPT !.string_value = "+" \o @]
  ELSE request

\* Faulty variant: a method that answers with the class default.
init_parameter_Default(self, request) ==
  OptionalMessage("uninitialized")

\* return test_util.OptionalMessage(string_value=self.__message)
init_parameter(self, request) ==
  OptionalMessage(self.message)

\* TestService.new_factory(*args): a factory that keeps the constructor
\* arguments and builds an instance from them each time it is called.
new_factory(args) == [args |-> args]
NewInstance(factory) == TestService(factory.args)

Paths == {"/my/service", "/my/other_service"}

\* EndToEndTestBase.DEFAULT_MAPPING; the class itself is the factory
\* without arguments.
DEFAULT_MAPPING ==
  [p \in Paths |->
     IF p = "/my/service" THEN new_factory(<<>>)
     ELSE new_factory(<<"initialized">>)]

NoCall == [called |-> FALSE, method |-> "", request |-> Unset, response |-> Unset]

\* ---- ServerTransportWrapper data ------------------------------------------
\* Arguments and outcomes of the wrapped transport's own send_rpc.
RpcArgs == {"optional_message", "init_parameter"}
RpcOutcomes == {"response", "error"}
Entries == {"wrapper", "transport"}

NoRpc ==
  [phase |-> "none", entry |-> "", args |-> "", g0 |-> 0,
   origCalls |-> 0, origArgs |-> "", origResult |-> "", out |-> ""]

\* ---- initial state: ServerThread.__init__ --------------------------------
InitThread ==
  /\ pc = [t \in Threads |-> IF t = Server THEN "new" ELSE "idle"]
  /\ lock = NoThread
  /\ waiters = <<>>
  /\ serving = TRUE
  /\ started = FALSE
  /\ requests = 0
  /\ server = "wsgi"
  /\ arg = [t \in Drivers |-> 0]
  /\ granted = 0
  /\ handled = 0
  /\ conns = 0
  /\ rpc = NoRpc
  /\ svc = [p \in Paths |-> NoCall]

Init ==
  /\ InitThread
  /\ script = <<>>
  /\ ip = 1

\* ---- operations a driver can begin -------------------------------------
Op(name, n) == [name |-> name, n |-> n]

\* Permits of handle_request calls that have begun and not yet added.
RECURSIVE SumArg(_)
SumArg(S) ==
  IF S = {} THEN 0
  ELSE LET t == CHOOSE x \in S : TRUE IN arg[t] + SumArg(S \ {t})

\* Driver t begins operation op: a call of one of the public methods, of
\* Thread.start(), or (scripted driver) one urlopen() of a request.
Do(t, op) ==
  /\ pc[t] = "idle"
  /\ \/ /\ op.name = "start"
        /\ pc[Server] = "new"
        /\ pc' = [pc EXCEPT ![Server] = "run_acq"]
        /\ UNCHANGED <<arg, conns>>
     \/ /\ op.name = "shutdown"
        /\ pc' = [pc EXCEPT ![t] = "sd_acq"]
        /\ UNCHANGED <<arg, conns>>
     \/ /\ op.name = "handle_request"
        /\ granted + SumArg(Drivers) + op.n <= MaxGranted
        /\ arg' = [arg EXCEPT ![t] = op.n]
        /\ pc' = [pc EXCEPT ![t] = "hr_acq"]
        /\ UNCHANGED conns
     \/ /\ op.name = "wait_until_running"
        /\ pc' = [pc EXCEPT ![t] = "wur_acq"]
        /\ UNCHANGED <<arg, conns>>
     \/ /\ op.name = "request"
        /\ conns < MaxBacklog
        /\ conns' = conns + 1
        /\ pc' = [pc EXCEPT ![t] = "req_wait"]
        /\ UNCHANGED arg
  /\ UNCHANGED <<lock, waiters, flags, hist>>

\* ---- ServerThread.shutdown ------------------------------------------------
SdAcquire(t) ==
  /\ pc[t] = "sd_acq"
  /\ AcquireLock(t)
  /\ pc' = [pc EXCEPT ![t] = "sd_set"]
  /\ UNCHANGED <<waiters, flags, arg, hist, conns, scr>>

\* Faulty variant: a shutdown that also drops the permits left.
SdSet_DropPermits(t) ==
  /\ pc[t] = "sd_set"
  /\ serving' = FALSE
  /\ requests' = 0
  /\ pc' = [pc EXCEPT ![t] = "sd_notify"]
  /\ UNCHANGED <<lock, waiters, started, server, arg, hist, conns, scr>>

\* self.__serving = False
SdSet(t) ==
  /\ pc[t] = "sd_set"
  /\ serving' = FALSE
  /\ pc' = [pc EXCEPT ![t] = "sd_notify"]
  /\ UNCHANGED <<lock, waiters, started, requests, server, arg, hist, conns, scr>>

SdNotify(t) ==
  /\ pc[t] = "sd_notify"
  /\ Notify(t, "sd_rel")
  /\ UNCHANGED <<lock, flags, arg, hist, conns, scr>>

SdRelease(t) ==
  /\ pc[t] = "sd_rel"
  /\ ReleaseLock(t)
  /\ pc' = [pc EXCEPT ![t] = "idle"]
  /\ UNCHANGED <<waiters, flags, arg, hist, conns, scr>>

\* ---- ServerThread.handle_request -----------------------------------------
HrAcquire(t) ==
  /\ pc[t] = "hr_acq"
  /\ AcquireLock(t)
  /\ pc' = [pc EXCEPT ![t] = "hr_add"]
  /\ UNCHANGED <<waiters, flags, arg, hist, conns, scr>>

HrAdd(t) ==
  /\ pc[t] = "hr_add"
  /\ requests' = requests + arg[t]
  /\ granted' = granted + arg[t]
  /\ arg' = [arg EXCEPT ![t] = 0]
  /\ pc' = [pc EXCEPT ![t] = "hr_notify"]
  /\ UNCHANGED <<lock, waiters, serving, started, server, handled, conns, scr>>

\* Faulty variant: handle_request without its notify().
HrNotify_Lost(t) ==
  /\ pc[t] = "hr_notify"
  /\ Notify_Lost(t, "hr_rel")
  /\ UNCHANGED <<lock, flags, arg, hist, conns, scr>>

HrNotify(t) ==
  /\ pc[t] = "hr_notify"
  /\ Notify(t, "hr_rel")
  /\ UNCHANGED <<lock, flags, arg, hist, conns, scr>>

HrRelease(t) ==
  /\ pc[t] = "hr_rel"
  /\ ReleaseLock(t)
  /\ pc' = [pc EXCEPT ![t] = "idle"]
  /\ UNCHANGED <<waiters, flags, arg, hist, conns, scr>>

\* ---- ServerThread.wait_until_running -------------------------------------
WurAcquire(t) ==
  /\ pc[t] = "wur_acq"
  /\ AcquireLock(t)
  /\ pc' = [pc EXCEPT ![t] = "wur_test"]
  /\ UNCHANGED <<waiters, flags, arg, hist, conns, scr>>

\* Faulty variant: wait_until_running without its while loop.
WurTest_NoWait(t) ==
  /\ pc[t] = "wur_test"
  /\ pc' = [pc EXCEPT ![t] = "wur_rel"]
  /\ UNCHANGED <<lock, waiters, flags, arg, hist, conns, scr>>

\* while not self.__started: self.__condition.wait()
WurTest(t) ==
  /\ pc[t] = "wur_test"
  /\ IF started
     THEN /\ pc' = [pc EXCEPT ![t] = "wur_rel"]
          /\ UNCHANGED <<lock, waiters>>
     ELSE Wait(t, "wur_wait")
  /\ UNCHANGED <<flags, arg, hist, conns, scr>>

\* wait() returns once notified and the lock is taken again.
WurWake(t) ==
  /\ pc[t] = "wur_woken"
  /\ AcquireLock(t)
  /\ pc' = [pc EXCEPT ![t] = "wur_test"]
  /\ UNCHANGED <<waiters, flags, arg, hist, conns, scr>>

WurRelease(t) ==
  /\ pc[t] = "wur_rel"
  /\ ReleaseLock(t)
  /\ pc' = [pc EXCEPT ![t] = "idle"]
  /\ UNCHANGED <<waiters, flags, arg, hist, conns, scr>>

\* urlopen() returns when the connection it made has been processed.
RecvResponse(t) ==
  /\ pc[t] = "req_wait"
  /\ conns = 0
  /\ pc' = [pc EXCEPT ![t] = "idle"]
  /\ UNCHANGED <<lock, waiters, flags, arg, hist, conns, scr>>

\* ---- ServerThread.run ------------------------------------------------------
RunAcquire ==
  /\ pc[Server] = "run_acq"
  /\ AcquireLock(Server)
  /\ pc' = [pc EXCEPT ![Server] = "run_started"]
  /\ UNCHANGED <<waiters, flags, arg, hist, conns, scr>>

RunSetStarted ==
  /\ pc[Server] = "run_started"
  /\ started' = TRUE
  /\ pc' = [pc EXCEPT ![Server] = "run_notifyAll"]
  /\ UNCHANGED <<lock, waiters, serving, requests, server, arg, hist, conns, scr>>

\* Faulty variant: run() waking one waiter where it wakes all.
RunNotifyAll_One ==
  /\ pc[Server] = "run_notifyAll"
  /\ Notify(Server, "run_while")
  /\ UNCHANGED <<lock, flags, arg, hist, conns, scr>>

\* self.__condition.notifyAll()
RunNotifyAll ==
  /\ pc[Server] = "run_notifyAll"
  /\ NotifyAll(Server, "run_while")
  /\ UNCHANGED <<lock, flags, arg, hist, conns, scr>>

\* Faulty variant: a loop that goes on while permits are left.
RunWhile_IgnoreShutdown ==
  /\ pc[Server] = "run_while"
  /\ pc' = [pc EXCEPT ![Server] =
              IF serving \/ requests > 0 THEN "run_if" ELSE "run_clear"]
  /\ UNCHANGED <<lock, waiters, flags, arg, hist, conns, scr>>

\* while self.__serving:
RunWhile ==
  /\ pc[Server] = "run_while"
  /\ pc' = [pc EXCEPT ![Server] = IF serving THEN "run_if" ELSE "run_clear"]
  /\ UNCHANGED <<lock, waiters, flags, arg, hist, conns, scr>>

\* Faulty variant: a loop that handles without testing the counter.
RunIf_AlwaysHandle ==
  /\ pc[Server] = "run_if"
  /\ pc' = [pc EXCEPT ![Server] = "run_handle"]
  /\ UNCHANGED <<lock, waiters, flags, arg, hist, conns, scr>>

\* if self.__requests == 0: self.__condition.wait()  else: handle one
RunIf ==
  /\ pc[Server] = "run_if"
  /\ IF requests = 0
     THEN Wait(Server, "run_wait")
     ELSE /\ pc' = [pc EXCEPT ![Server] = "run_handle"]
          /\ UNCHANGED <<lock, waiters>>
  /\ UNCHANGED <<flags, arg, hist, conns, scr>>

\* wait() returns once notified and the lock is taken again.
RunWake ==
  /\ pc[Server] = "run_woken"
  /\ AcquireLock(Server)
  /\ pc' = [pc EXCEPT ![Server] = "run_while"]
  /\ UNCHANGED <<waiters, flags, arg, hist, conns, scr>>

\* self.server.handle_request(): blocks until a connection is pending,
\* processes that one connection and returns.  The lock stays held.
RunHandle ==
  /\ pc[Server] = "run_handle"
  /\ conns > 0
  /\ conns' = conns - 1
  /\ handled' = handled + 1
  /\ pc' = [pc EXCEPT ![Server] = "run_dec"]
  /\ UNCHANGED <<lock, waiters, flags, arg, granted, scr>>

\* Faulty variant: a handle step that uses no permit.
RunDecrement_Skip ==
  /\ pc[Server] = "run_dec"
  /\ pc' = [pc EXCEPT ![Server] = "run_while"]
  /\ UNCHANGED <<lock, waiters, flags, arg, hist, conns, scr>>

\* self.__requests -= 1
RunDecrement ==
  /\ pc[Server] = "run_dec"
  /\ requests' = requests - 1
  /\ pc' = [pc EXCEPT ![Server] = "run_while"]
  /\ UNCHANGED <<lock, waiters, serving, started, server, arg, hist, conns, scr>>

\* self.server = None
RunClear ==
  /\ pc[Server] = "run_clear"
  /\ server' = "None"
  /\ pc' = [pc EXCEPT ![Server] = "run_rel"]
  /\ UNCHANGED <<lock, waiters, serving, started, requests, arg, hist, conns, scr>>

RunRelease ==
  /\ pc[Server] = "run_rel"
  /\ ReleaseLock(Server)
  /\ pc' = [pc EXCEPT ![Server] = "stopped"]
  /\ UNCHANGED <<waiters, flags, arg, hist, conns, scr>>

\* ---- environment ----------------------------------------------------------
\* Some client connects to the listening socket.
ClientConnect ==
  /\ conns < MaxBacklog
  /\ conns' = conns + 1
  /\ UNCHANGED <<pc, lock, waiters, flags, arg, hist, scr>>

\* ---- next-state relations -------------------------------------------------
Counts == 0..MaxCount

CallOps ==
  {Op("start", 0), Op("shutdown", 0), Op("wait_until_running", 0)}
    \cup {Op("handle_request", n) : n \in Counts}

\* A driver calls any method with any argument.
DriverCall(t) ==
  /\ \E op \in CallOps : Do(t, op)
  /\ UNCHANGED scr

\* A driver continues the method it is in.
DriverStep(t) ==
  \/ SdAcquire(t) \/ SdSet(t) \/ SdNotify(t) \/ SdRelease(t)
  \/ HrAcquire(t) \/ HrAdd(t) \/ HrNotify(t) \/ HrRelease(t)
  \/ WurAcquire(t) \/ WurTest(t) \/ WurWake(t) \/ WurRelease(t)

\* The serving thread continues run(), short of completing a connection.
ServerControl ==
  \/ RunAcquire \/ RunSetStarted \/ RunNotifyAll \/ RunWhile \/ RunIf
  \/ RunWake \/ RunDecrement \/ RunClear \/ RunRelease

ServerStep ==
  ServerControl \/ RunHandle

Next ==
  \/ \E t \in Drivers : DriverCall(t)
  \/ \E t \in Drivers : DriverStep(t)
  \/ ServerStep
  \/ ClientConnect

Spec == Init /\ [][Next]_vars

\* ---- one driver running a fixed program ----------------------------------
\* The test harness: a single driver thread executes its operations in
\* order, and the only connections are those its own urlopen() makes.
ScriptOps ==
  {Op("start", 0), Op("shutdown", 0), Op("wait_until_running", 0),
   Op("request", 0)}
    \cup {Op("handle_request", n) : n \in 1..MaxCount}

RECURSIVE SumCounts(_)
SumCounts(sq) ==
  IF sq = <<>> THEN 0 ELSE Head(sq).n + SumCounts(Tail(sq))

Starts(sq) == Cardinality({i \in 1..Len(sq) : sq[i].name = "start"})

\* Every program of at most MaxScriptLen operations that starts the
\* thread at most once.
Scripts ==
  {sq \in UNION {[1..k -> ScriptOps] : k \in 0..MaxScriptLen} :
     Starts(sq) <= 1 /\ SumCounts(sq) <= MaxGranted}

ScriptInit ==
  /\ InitThread
  /\ script \in Scripts
  /\ ip = 1

ScriptStep ==
  /\ ip <= Len(script)
  /\ Do(ScriptDriver, script[ip])
  /\ ip' = ip + 1
  /\ UNCHANGED <<script, rpc, svc>>

ScriptNext ==
  \/ ScriptStep
  \/ DriverStep(ScriptDriver)
  \/ RecvResponse(ScriptDriver)
  \/ ServerStep

ScriptSpec == ScriptInit /\ [][ScriptNext]_vars

\* ---- fairness ---------------------------------------------------------------
\* The drivers that act in the specifications with fairness.
FairDrivers == 1..NumFairDrivers

FairNext ==
  \/ \E t \in FairDrivers : DriverCall(t)
  \/ \E t \in FairDrivers : DriverStep(t)
  \/ ServerStep
  \/ ClientConnect

\* Every thread that can run keeps running, and a thread that asks for the
\* lock again and again gets it (fair scheduling of the threads).
ThreadFairness ==
  /\ SF_vars(ServerStep)
  /\ \A t \in FairDrivers : SF_vars(DriverStep(t))

\* Fair threads; clients need not connect.
FairSpec == Init /\ [][FairNext]_vars /\ ThreadFairness

\* Fair threads, and a connection arrives whenever the socket waits for one.
LiveSpec == Init /\ [][FairNext]_vars /\ ThreadFairness /\ WF_vars(ClientConnect)

\* ---- positions -------------------------------------------------------------
\* Positions between a method's acquire and its release, where the shared
\* fields are read and written.
Critical ==
  {"sd_set", "sd_notify", "sd_rel", "hr_add", "hr_notify", "hr_rel",
   "wur_test", "wur_rel", "run_started", "run_notifyAll", "run_while",
   "run_if", "run_handle", "run_dec", "run_clear", "run_rel"}

\* Positions of a thread blocked until the lock is free.
Acquiring == {"sd_acq", "hr_acq", "wur_acq", "wur_woken"}

InWur == {"wur_acq", "wur_test", "wur_wait", "wur_woken", "wur_rel"}

InShutdown == {"sd_acq", "sd_set", "sd_notify", "sd_rel"}

ThreadStarted == pc[Server] # "new"

\* ---- C1 ---------------------------------------------------------------------
\* C1: the permit counter is never negative; it decreases only in the
\* serving loop's decrement, by exactly 1 and from a value > 0; it increases
\* only in the add of a driver's handle_request call.
C1_PermitCounter ==
  /\ [](requests >= 0)
  /\ [][/\ requests' < requests =>
             /\ pc[Server] = "run_dec"
             /\ pc'[Server] = "run_while"
             /\ requests > 0
             /\ requests' = requests - 1
        /\ requests' > requests =>
             \E t \in Drivers : pc[t] = "hr_add" /\ pc'[t] = "hr_notify"]_vars

\* The loop has just taken the counter from 1 to 0 after two grants.
C1_Witness ==
  /\ pc[Server] = "run_while"
  /\ handled = 2
  /\ granted = 2
  /\ requests = 0

\* ---- C2 ---------------------------------------------------------------------
\* C2: outside a handle step, completed handle calls + permit counter = sum
\* of the counts granted; inside one (connection processed, counter not yet
\* decremented) the sum is one more; never more handled than granted; a
\* handle step begins only with the counter > 0.
C2_ExactPermits ==
  /\ handled <= granted
  /\ pc[Server] # "run_dec" => handled + requests = granted
  /\ pc[Server] = "run_dec" => handled + requests = granted + 1
  /\ pc[Server] = "run_handle" => requests > 0

\* Every granted permit has been used and the loop waits on the condition.
C2_Witness ==
  /\ pc[Server] = "run_wait"
  /\ handled = MaxGranted
  /\ granted = MaxGranted
  /\ requests = 0

\* ---- C3 ---------------------------------------------------------------------
\* C3: with fair threads and arriving connections, once the thread is
\* started the k-th granted permit leads to the k-th completed handle step
\* unless shutdown intervenes, and the loop does not stay in the
\* condition's wait queue while the counter is > 0.
C3_NoLostWakeup ==
  /\ \A k \in 1..MaxGranted :
       (ThreadStarted /\ granted >= k) ~> (handled >= k \/ ~serving)
  /\ (pc[Server] = "run_wait" /\ requests > 0) ~> (pc[Server] # "run_wait")

\* A grant made while the loop was waiting has woken it, after an earlier
\* permit was honoured.
C3_Witness ==
  /\ pc[Server] = "run_woken"
  /\ requests > 0
  /\ handled >= 1
  /\ serving

\* ---- C4 ---------------------------------------------------------------------
\* handle_request(1), start(), wait_until_running(), then one request.
ScriptC4 ==
  <<Op("handle_request", 1), Op("start", 0), Op("wait_until_running", 0),
    Op("request", 0)>>

\* The driver has returned from the last operation of its program.
ScriptDone ==
  /\ ip > Len(script)
  /\ pc[ScriptDriver] = "idle"

\* C4: the driver that grants one permit, starts the thread, waits until
\* it runs and then sends one request is never stuck: as long as its program
\* has not ended with exactly one request served, some thread can step.
C4_GrantBeforeStart ==
  script = ScriptC4 =>
    \/ ENABLED ScriptNext
    \/ ScriptDone /\ handled = 1

\* ---- C5 ---------------------------------------------------------------------
\* C5: once the serving flag is false it stays false, no handle step
\* begins or completes any more whatever the permit counter is, and the loop
\* leaves only because of the flag.
C5_ShutdownTerminal ==
  /\ [](pc[Server] \in {"run_clear", "run_rel", "stopped"} => ~serving)
  /\ [][~serving =>
          /\ ~serving'
          /\ handled' = handled
          /\ pc'[Server] # "run_handle"]_vars

\* The loop has exited after shutdown with permits left in the counter.
C5_Witness ==
  /\ pc[Server] = "stopped"
  /\ ~serving
  /\ requests > 0

\* ---- C6 ---------------------------------------------------------------------
\* Steps of the threads other than completing a connection.
ControlNext ==
  \/ \E t \in Drivers : DriverStep(t)
  \/ ServerControl

\* C6: a shutdown() call on a started thread never depends on a request:
\* while the call is in progress, some thread can step without a connection
\* arriving or being processed.
C6_ShutdownPrompt ==
  \A t \in Drivers :
    (pc[t] \in InShutdown /\ ThreadStarted) => ENABLED ControlNext

\* ---- C7 ---------------------------------------------------------------------
\* C7: wait_until_running leaves its loop only with the started flag true;
\* the flag is set before any handle step and never cleared; and with fair
\* threads a call on a started thread returns unless a permit is granted in
\* the meantime.
C7_WaitUntilRunning ==
  /\ [](\A t \in Drivers : pc[t] = "wur_rel" => started)
  /\ []((handled > 0 \/ pc[Server] \in {"run_handle", "run_dec"}) => started)
  /\ [][started => started']_vars
  /\ \A t \in Drivers :
       (pc[t] \in InWur /\ ThreadStarted) ~> (pc[t] = "idle" \/ granted > 0)

\* A caller that waited on the condition returns while the loop, with no
\* permit granted, waits for one.
C7_Witness ==
  \E t \in Drivers :
    /\ pc[t] = "wur_rel"
    /\ started
    /\ granted = 0
    /\ pc[Server] = "run_wait"

\* ---- C8 ---------------------------------------------------------------------
\* C8: a thread at a statement that reads or writes the counter or the
\* flags owns the lock, at most one thread is at such a statement, and the
\* owner of the lock is inside a locked method.
C8_LockDiscipline ==
  /\ \A t \in Threads : pc[t] \in Critical => lock = t
  /\ Cardinality({t \in Threads : pc[t] \in Critical}) <= 1
  /\ lock # NoThread => pc[lock] \in Critical

\* A driver adds permits while the serving thread and the other driver both
\* wait for the lock.
C8_Witness ==
  \E t \in Drivers :
    /\ pc[t] = "hr_add"
    /\ lock = t
    /\ pc[Server] \in {"run_acq", "run_woken"}
    /\ \E u \in Drivers \ {t} : pc[u] \in Acquiring

\* ---- C9 ---------------------------------------------------------------------
ScriptTwoGrants ==
  <<Op("start", 0), Op("wait_until_running", 0), Op("handle_request", 1),
    Op("handle_request", 1)>>

ScriptOneGrant ==
  <<Op("start", 0), Op("wait_until_running", 0), Op("handle_request", 2)>>

\* C9: after start() and wait_until_running(), granting 1 twice and
\* granting 2 once both complete and end alike: whenever no thread can step
\* the driver has returned and two permits have been granted.
C9_GrantsCumulative ==
  script \in {ScriptTwoGrants, ScriptOneGrant} =>
    \/ ENABLED ScriptNext
    \/ ScriptDone /\ handled + requests = 2

\* ---- C10 --------------------------------------------------------------------
\* C10: the serving thread is without the lock only while it waits on the
\* condition, and while it is inside server.handle_request() no caller of
\* handle_request, shutdown or wait_until_running is kept waiting for the
\* lock by it.
C10_HandleStepNonBlocking ==
  /\ (pc[Server] \notin {"new", "run_acq", "stopped"} /\ lock # Server)
       => pc[Server] \in {"run_wait", "run_woken"}
  /\ ~(/\ pc[Server] = "run_handle"
       /\ lock = Server
       /\ \E t \in Drivers : pc[t] \in Acquiring)

\* ---- a handle step that fails ------------------------------------------------
\* self.server.handle_request() raises while processing a connection: run()
\* has no handler, so the exception leaves the loop at line 272.
RunHandleError ==
  /\ pc[Server] = "run_handle"
  /\ conns > 0
  /\ conns' = conns - 1
  /\ pc' = [pc EXCEPT ![Server] = "run_exc"]
  /\ UNCHANGED <<lock, waiters, flags, arg, hist, scr>>

\* Faulty variant: a wrapper without its finally clause.
RunExcRelease_NoFinally ==
  /\ pc[Server] = "run_exc"
  /\ pc' = [pc EXCEPT ![Server] = "died"]
  /\ UNCHANGED <<lock, waiters, flags, arg, hist, conns, scr>>

\* The wrapper's finally clause releases the lock; the exception then ends
\* the thread.
RunExcRelease ==
  /\ pc[Server] = "run_exc"
  /\ ReleaseLock(Server)
  /\ pc' = [pc EXCEPT ![Server] = "died"]
  /\ UNCHANGED <<waiters, flags, arg, hist, conns, scr>>

ErrNext ==
  \/ Next
  \/ RunHandleError
  \/ RunExcRelease

\* The threads with a server whose handle_request() may raise.
ErrSpec == Init /\ [][ErrNext]_vars

\* Positions of the serving thread inside the loop of run().
InLoop ==
  {"run_while", "run_if", "run_wait", "run_woken", "run_handle", "run_dec"}

\* ---- C11 --------------------------------------------------------------------
\* C11: a handle step that ends in an error is contained: the step still
\* goes on to the decrement of the counter, and once the loop has been
\* entered the serving thread stays in it for as long as the serving flag is
\* true.
C11_ErrorContained ==
  /\ []((started /\ serving /\ pc[Server] # "run_notifyAll")
          => pc[Server] \in InLoop)
  /\ [][(pc[Server] = "run_handle" /\ pc'[Server] # "run_handle")
          => pc'[Server] = "run_dec"]_vars

\* ---- C12 --------------------------------------------------------------------
\* Positions of a thread that is in none of the locked methods.
Outside == {"idle", "new", "stopped", "died", "req_wait"}

\* C12: a thread that has returned from, or been thrown out of, a locked
\* method does not own the lock, so the lock is owned only by a thread that
\* is still inside one.
C12_LockReleased ==
  /\ \A t \in Threads : pc[t] \in Outside => lock # t
  /\ lock # NoThread => pc[lock] \in Critical \cup {"run_exc"}

\* run() has been left by an exception and a driver has since taken the
\* lock.
C12_Witness ==
  /\ pc[Server] = "died"
  /\ \E t \in Drivers : lock = t /\ pc[t] = "hr_add"

\* ---- ServerTransportWrapper.send_rpc ---------------------------------------
\* __init__ stores transport.send_rpc as original_send_rpc and assigns its
\* own send_rpc to the transport, so a call through either entry runs the
\* same method.  The caller is the scripted driver.
\* Faulty variant: a wrapper that grants two permits for one send.
RpcCall_TwoPermits(entry, a) ==
  /\ pc[ScriptDriver] = "idle"
  /\ rpc.phase \in {"none", "done"}
  /\ granted + 2 <= MaxGranted
  /\ rpc' = [NoRpc EXCEPT !.phase = "grant", !.entry = entry, !.args = a,
                          !.g0 = granted]
  /\ arg' = [arg EXCEPT ![ScriptDriver] = 2]
  /\ pc' = [pc EXCEPT ![ScriptDriver] = "hr_acq"]
  /\ UNCHANGED <<lock, waiters, flags, hist, conns, script, ip, svc>>

\* send_rpc(*args, **kwargs) begins: self.server_thread.handle_request()
RpcCall(entry, a) ==
  /\ pc[ScriptDriver] = "idle"
  /\ rpc.phase \in {"none", "done"}
  /\ granted + 1 <= MaxGranted
  /\ rpc' = [NoRpc EXCEPT !.phase = "grant", !.entry = entry, !.args = a,
                          !.g0 = granted]
  /\ arg' = [arg EXCEPT ![ScriptDriver] = 1]
  /\ pc' = [pc EXCEPT ![ScriptDriver] = "hr_acq"]
  /\ UNCHANGED <<lock, waiters, flags, hist, conns, script, ip, svc>>

\* handle_request() has returned: self.original_send_rpc(*args, **kwargs)
\* is called and connects to the server.
RpcOriginal ==
  /\ pc[ScriptDriver] = "idle"
  /\ rpc.phase = "grant"
  /\ conns < MaxBacklog
  /\ conns' = conns + 1
  /\ rpc' = [rpc EXCEPT !.phase = "orig", !.origCalls = @ + 1,
                        !.origArgs = rpc.args]
  /\ pc' = [pc EXCEPT ![ScriptDriver] = "req_wait"]
  /\ UNCHANGED <<lock, waiters, flags, arg, hist, script, ip, svc>>

\* The original send_rpc ends, with a response or by raising, once its
\* connection has been processed.
RpcOriginalEnds(r) ==
  /\ pc[ScriptDriver] = "req_wait"
  /\ rpc.phase = "orig"
  /\ conns = 0
  /\ rpc' = [rpc EXCEPT !.phase = "ret", !.origResult = r]
  /\ pc' = [pc EXCEPT ![ScriptDriver] = "rpc_ret"]
  /\ UNCHANGED <<lock, waiters, flags, arg, hist, conns, script, ip, svc>>

\* return self.original_send_rpc(...): the outcome goes to the caller.
RpcReturn ==
  /\ pc[ScriptDriver] = "rpc_ret"
  /\ rpc' = [rpc EXCEPT !.phase = "done", !.out = rpc.origResult]
  /\ pc' = [pc EXCEPT ![ScriptDriver] = "idle"]
  /\ UNCHANGED <<lock, waiters, flags, arg, hist, conns, script, ip, svc>>

\* The test's other calls, made between two sends.
RpcDriverCall ==
  /\ rpc.phase \in {"none", "done"}
  /\ \E op \in {Op("start", 0), Op("wait_until_running", 0),
                Op("shutdown", 0)} : Do(ScriptDriver, op)
  /\ UNCHANGED scr

RpcNext ==
  \/ \E entry \in Entries, a \in RpcArgs : RpcCall(entry, a)
  \/ RpcOriginal
  \/ \E r \in RpcOutcomes : RpcOriginalEnds(r)
  \/ RpcReturn
  \/ RpcDriverCall
  \/ DriverStep(ScriptDriver)
  \/ ServerStep

RpcSpec == Init /\ [][RpcNext]_vars

\* C13: every send_rpc made through the wrapper, or through the transport
\* it wrapped, first grants exactly one permit with handle_request() and
\* only then calls the original send_rpc, exactly once and with the same
\* arguments; the caller gets the original's outcome, response or error,
\* unchanged.
C13_TransparentWrapper ==
  /\ rpc.phase = "grant" =>
       /\ rpc.origCalls = 0
       /\ granted + arg[ScriptDriver] = rpc.g0 + 1
  /\ rpc.phase \in {"orig", "ret", "done"} =>
       /\ granted = rpc.g0 + 1
       /\ rpc.origCalls = 1
       /\ rpc.origArgs = rpc.args
  /\ rpc.phase = "done" => rpc.out = rpc.origResult

C13_Witness ==
  /\ rpc.phase = "done"
  /\ rpc.entry = "transport"
  /\ rpc.out = "error"
  /\ granted = 2

\* ---- requests to the services of the default mapping ----------------------
\* A request posted to path p, method m: the mapping's factory for p builds
\* the service instance and the method's result is the response.
Call(p, m, request) ==
  LET self == NewInstance(DEFAULT_MAPPING[p])
      response == IF m = "optional_message"
                  THEN optional_message(self, request)
                  ELSE init_parameter(self, request)
  IN  /\ svc' = [svc EXCEPT ![p] = [called |-> TRUE, method |-> m,
                                    request |-> request,
                                    response |-> response]]
      /\ UNCHANGED <<pc, lock, waiters, flags, arg, hist, conns,
                     script, ip, rpc>>

CallOptionalMessage ==
  \E p \in Paths, request \in Requests : Call(p, "optional_message", request)

\* init_parameter takes a VoidMessage, which has no field.
CallInitParameter ==
  \E p \in Paths : Call(p, "init_parameter", Unset)

ServiceNext ==
  \/ CallOptionalMessage
  \/ CallInitParameter

ServiceSpec == Init /\ [][ServiceNext]_vars

\* C14: optional_message answers a request whose string_value is a
\* non-empty string s with string_value = "+" followed by s ("x" gives
\* "+x"), and returns a request whose string_value is unset or empty
\* unchanged.
C14_OptionalMessage ==
  \A p \in Paths :
    (svc[p].called /\ svc[p].method = "optional_message") =>
      LET request == svc[p].request
          response == svc[p].response
      IN  /\ (request.set /\ request.string_value # "") =>
                /\ response.set
                /\ response.string_value = "+" \o request.string_value
                /\ Len(response.string_value) = Len(request.string_value) + 1
          /\ request = OptionalMessage("x") => response = OptionalMessage("+x")
          /\ (~request.set \/ request.string_value = "") => response = request

C14_Witness ==
  /\ svc["/my/service"].called
  /\ svc["/my/service"].request = OptionalMessage("x")
  /\ svc["/my/service"].response = OptionalMessage("+x")
  /\ svc["/my/other_service"].called
  /\ svc["/my/other_service"].method = "optional_message"
  /\ svc["/my/other_service"].request = OptionalMessage("")
  /\ svc["/my/other_service"].response = OptionalMessage("")

\* C15: init_parameter at '/my/service' returns 'uninitialized' and at
\* '/my/other_service' returns 'initialized', each the message its own
\* instance was constructed with, and a request to one path never changes
\* what the other path returned or returns.
C15_InitParameter ==
  /\ [](\A p \in Paths :
          (svc[p].called /\ svc[p].method = "init_parameter") =>
             svc[p].response =
               OptionalMessage(IF p = "/my/service" THEN "uninitialized"
                               ELSE "initialized"))
  /\ [][\A p, q \in Paths :
          (p # q /\ svc'[p] # svc[p]) => svc'[q] = svc[q]]_vars

C15_Witness ==
  /\ \A p \in Paths : svc[p].called /\ svc[p].method = "init_parameter"
  /\ svc["/my/service"].response # svc["/my/other_service"].response

\* ---- frame of the driver-side methods ---------------------------------------
InHandleRequest == {"hr_acq", "hr_add", "hr_notify", "hr_rel"}

\* Driver t takes a step of a call whose positions are P, the step that
\* begins the call and the step that returns from it included.
StepOfCall(t, P) ==
  /\ pc'[t] # pc[t]
  /\ pc[t] \in P \/ pc'[t] \in P

\* C16: a call of handle_request(n) changes only the permit counter, by n,
\* and leaves started and serving as they are; a call of shutdown() changes
\* only serving, to false, and leaves the counter and started as they are;
\* a call of wait_until_running() changes none of the three; no step of
\* these calls is a handle step.
C16_Frame ==
  [][\A t \in Drivers :
       /\ StepOfCall(t, InHandleRequest) =>
            /\ requests' = requests + (IF pc[t] = "hr_add" THEN arg[t] ELSE 0)
            /\ UNCHANGED <<serving, started, handled, conns>>
       /\ StepOfCall(t, InShutdown) =>
            /\ serving' = (IF pc[t] = "sd_set" THEN FALSE ELSE serving)
            /\ UNCHANGED <<requests, started, handled, conns>>
       /\ StepOfCall(t, InWur) =>
            UNCHANGED <<requests, serving, started, handled, conns>>
       /\ (pc[t] = "idle" /\ pc'[t] = "hr_acq") => arg'[t] \in Counts
       /\ pc[t] = "hr_acq" => arg'[t] = arg[t]]_vars

C16_Witness ==
  /\ started
  /\ ~serving
  /\ requests = MaxCount
  /\ \E t \in Drivers : pc[t] = "sd_notify"
  /\ \E t \in Drivers : pc[t] = "wur_acq"

\* ---- the harness discipline --------------------------------------------------
\* Faulty variant: a round that sends the request before granting a permit.
Round_SendFirst ==
  <<Op("request", 0), Op("handle_request", 1)>>

\* DoRawRequest and send_rpc: self.server.handle_request(), then the request
\* is sent and its response awaited.
Round ==
  <<Op("handle_request", 1), Op("request", 0)>>

RECURSIVE Rounds(_)
Rounds(k) ==
  IF k = 0 THEN <<>> ELSE Round \o Rounds(k - 1)

\* StartWebServer (start, then wait_until_running), k rounds, and tearDown
\* (shutdown).
Harness(k) ==
  <<Op("start", 0), Op("wait_until_running", 0)>> \o Rounds(k)
     \o <<Op("shutdown", 0)>>

HarnessScripts == {Harness(k) : k \in 0..MaxGranted}

HarnessInit ==
  /\ InitThread
  /\ script \in HarnessScripts
  /\ ip = 1

\* Some thread that can take a step takes one.
HarnessSpec == HarnessInit /\ [][ScriptNext]_vars /\ WF_vars(ScriptNext)

Sent(sq) == Cardinality({i \in 1..Len(sq) : sq[i].name = "request"})

HarnessDone ==
  /\ ScriptDone
  /\ pc[ScriptDriver] = "idle"
  /\ pc[Server] = "stopped"
  /\ handled = Sent(script)
  /\ requests = 0
  /\ ~serving

\* C17: under the harness discipline (start, wait_until_running, any number
\* of rounds of: grant one permit, send one request, await its response;
\* then shutdown) the system never deadlocks: it reaches the state where
\* every request sent has been served, shutdown has returned and the serving
\* thread has ended, and at each grant the counter is 0 and the loop is
\* waiting on the condition.
C17_HarnessNeverDeadlocks ==
  /\ [](HarnessDone \/ ENABLED ScriptNext)
  /\ <>HarnessDone
  /\ [](pc[ScriptDriver] = "hr_add" =>
          /\ requests = 0
          /\ pc[Server] = "run_wait"
          /\ waiters = <<Server>>)
  /\ [](pc[ScriptDriver] = "req_wait" => handled + conns = granted)

C17_Witness ==
  /\ HarnessDone
  /\ handled = MaxGranted

\* ---- who waits on the condition ----------------------------------------------
\* Thread t is blocked in self.__condition.wait() and not yet notified.
InQueue(t) == \E i \in 1..Len(waiters) : waiters[i] = t

\* The loop and a caller of wait_until_running never wait together.
NeverBothWaiting ==
  ~(InQueue(Server) /\ \E t \in Drivers : InQueue(t))

\* The loop waits only after it has set started and issued notifyAll.
LoopWaitsAfterStart ==
  InQueue(Server) => (started /\ pc[Server] = "run_wait")

\* The notify() of handle_request() or shutdown(), issued while the loop
\* waits, wakes the loop.
NotifyWakesLoop ==
  \A t \in Drivers :
    (pc[t] \in {"hr_notify", "sd_notify"} /\ pc'[t] # pc[t]
       /\ InQueue(Server))
      => (pc'[Server] = "run_woken" /\ ~InQueue(Server)')

\* C18, as stated: the loop and a caller of wait_until_running are never
\* both waiting on the condition; callers of wait_until_running wait only
\* while started is false, the loop waits only after it has set started and
\* issued notifyAll; so a notify() issued while the loop waits wakes it.
C18_NotifyNeverStolen ==
  /\ []NeverBothWaiting
  /\ [](\A t \in Drivers : InQueue(t) => ~started)
  /\ []LoopWaitsAfterStart
  /\ [][NotifyWakesLoop]_vars

\* C18, precisely: as above, except that callers of wait_until_running are
\* still in the wait queue, with started already true, in the one state
\* between run()'s assignment of started and its notifyAll, where run()
\* holds the lock.
C18_NotifyNeverStolen_UntilNotifyAll ==
  /\ []NeverBothWaiting
  /\ [](\A t \in Drivers :
          InQueue(t) =>
            \/ ~started
            \/ pc[Server] = "run_notifyAll" /\ lock = Server)
  /\ []LoopWaitsAfterStart
  /\ [][NotifyWakesLoop]_vars

C18_Witness ==
  /\ InQueue(Server)
  /\ handled >= 1
  /\ requests > 0
  /\ \E t \in Drivers : pc[t] = "hr_notify"
  /\ \E t \in Drivers : pc[t] = "wur_acq"
====
